---- MODULE Spec2Model ----
(***************************************************************************)
(* A model of three parts of ppci:                                          *)
(*   - ppci/utils/hexfile.py : the Intel HEX reader/writer and its region  *)
(*     list (HexFile, HexFileRegion, makeHexLine, parseHexLine);           *)
(*   - ppci/arch/riscv/arch.py : RiscvArch.make_call (the caller-save      *)
(*     sequence around a call) and the __sdiv runtime routine;             *)
(*   - ppci/arch/riscv/arch.py : RiscvAssembler, the literal pool.         *)
(* Python lists of mutable objects are modelled with object identity where *)
(* the code depends on it (HexFile.check iterates over a snapshot of the   *)
(* list while it mutates the regions and the list).  An operation that     *)
(* raises leaves the state the code has built up to the exception, and the *)
(* name of the exception in last.err.                                      *)
(*                                                                         *)
(* Specifications:                                                         *)
(*   Spec     : addRegion, merge, save and re-load on a HexFile            *)
(*   SpecLoad : load of an input stream, then save and re-load             *)
(*   SpecLine : makeHexLine and parseHexLine on one record                 *)
(*   SpecCall : the instructions of make_call, run over any callee         *)
(*   SpecDiv  : the __sdiv routine, run on a dividend and a divisor        *)
(*   SpecDivFair : SpecDiv where the machine always executes the next      *)
(*     instruction                                                         *)
(*   SpecAsm  : add_literal and flush on a RiscvAssembler                  *)
(***************************************************************************)
EXTENDS Integers, Sequences, FiniteSets, TLC

VARIABLES
    hex,      \* the HexFile under test: [regions, startAddress]
    other,    \* a second HexFile (the target of a re-load, the source of merge)
    f,        \* the text stream save wrote last: a sequence of lines
    last,     \* the last operation, its arguments and how it ended
    added,    \* history: the regions hex accepted since its construction
    raised,   \* history: some operation on hex has raised since its construction
    saved,    \* history: the HexFile value whose save wrote f completely
    nadd,     \* number of addRegion and merge calls made so far
    line,     \* hex line unit: the record under construction / parsed
    cpu,      \* RISC-V machine: [pc, x (registers), mem, ...]
    asm       \* the RiscvAssembler: [lit_pool, lit_counter, in_macro, ...]

hexvars == <<hex, other, f, last, added, raised, saved, nadd>>
vars == <<hex, other, f, last, added, raised, saved, nadd, line, cpu, asm>>

----------------------------------------------------------------------------
(* Program constants of hexfile.py *)
DATA == 0
EOF == 1
EXTLINADR == 4
STARTLINADR == 5
ChunkSize == 16
Bank == 65536

(* Bounds of the model *)
MaxAdds == 3

Byte == 0..255
Ok == "ok"
Overlap == "HexFileException: Overlapping regions"
AfterEof == "HexFileException: hexfile line after end of file record"
EofNotEmpty == "HexFileException: end of file not empty"
NotImplemented == "HexFileException: record type not implemented"
BadCount == "HexFileException: byte count field incorrect"
BadCrc == "HexFileException: crc incorrect"
StructError == "struct.error"
ValueError == "ValueError"
IndexError == "IndexError"
HexFileException == {Overlap, AfterEof, EofNotEmpty, NotImplemented, BadCount, BadCrc}

Min(a, b) == IF a < b THEN a ELSE b

(* sum(nums), by halves *)
RECURSIVE SumSeq(_)
SumSeq(s) ==
    IF Len(s) = 0 THEN 0
    ELSE IF Len(s) = 1 THEN s[1]
    ELSE SumSeq(SubSeq(s, 1, Len(s) \div 2)) + SumSeq(SubSeq(s, Len(s) \div 2 + 1, Len(s)))

----------------------------------------------------------------------------
(* HexFileRegion *)
HexFileRegion(address, data) == [address |-> address, data |-> data]

Size(r) == Len(r.data)

EndAddress(r) == r.address + Len(r.data)

addData(r, d) == [r EXCEPT !.data = r.data \o d]

(* HexFile.__init__ *)
NewHexFile == [regions |-> <<>>, startAddress |-> 0]

(* list.sort(key=lambda r: r.address): a stable sort *)
RECURSIVE InsertByAddress(_, _)
InsertByAddress(s, r) ==
    IF s = <<>> THEN <<r>>
    ELSE IF s[Len(s)].address <= r.address THEN Append(s, r)
    ELSE Append(InsertByAddress(SubSeq(s, 1, Len(s) - 1), r), s[Len(s)])

RECURSIVE SortByAddress(_)
SortByAddress(s) ==
    IF s = <<>> THEN <<>>
    ELSE InsertByAddress(SortByAddress(SubSeq(s, 1, Len(s) - 1)), s[Len(s)])

(* list.remove(x): drops the first element equal to x (HexFileRegion.__eq__  *)
(* compares address and data); `live` holds object identities, `heap` their  *)
(* current values.  0 when no element is equal (Python raises ValueError).   *)
FirstEqual(heap, live, v) ==
    LET hits == {j \in 1..Len(live) : heap[live[j]] = v}
    IN  IF hits = {} THEN 0 ELSE CHOOSE j \in hits : \A k \in hits : j <= k

RemoveAt(s, j) == SubSeq(s, 1, j - 1) \o SubSeq(s, j + 1, Len(s))

(* One execution of the for loop of HexFile.check over the pairs of the       *)
(* snapshot zip(regions[:-1], regions[1:]): objects 1..n are the regions of   *)
(* the list when the loop starts, heap[i] the value of object i, live the     *)
(* objects still in self.regions.                                             *)
RECURSIVE CheckPairs(_, _, _, _, _)
CheckPairs(heap, live, k, n, change) ==
    IF k >= n THEN [heap |-> heap, live |-> live, change |-> change, err |-> Ok]
    ELSE LET r1 == heap[k]
             r2 == heap[k + 1]
         IN  IF EndAddress(r1) = r2.address
             THEN LET heap2 == [heap EXCEPT ![k] = addData(r1, r2.data)]
                      j == FirstEqual(heap2, live, r2)
                  IN  IF j = 0
                      THEN [heap |-> heap2, live |-> live, change |-> change,
                            err |-> ValueError]
                      ELSE CheckPairs(heap2, RemoveAt(live, j), k + 1, n, TRUE)
             ELSE IF EndAddress(r1) > r2.address
             THEN [heap |-> heap, live |-> live, change |-> change, err |-> Overlap]
             ELSE CheckPairs(heap, live, k + 1, n, change)

(* The while loop of HexFile.check, entered with the list already sorted *)
RECURSIVE CheckLoop(_, _)
CheckLoop(regions, change) ==
    IF ~(change /\ Len(regions) > 1) THEN [regions |-> regions, err |-> Ok]
    ELSE LET n == Len(regions)
             p == CheckPairs(regions, [i \in 1..n |-> i], 1, n, FALSE)
             now == [i \in 1..Len(p.live) |-> p.heap[p.live[i]]]
         IN  IF p.err # Ok THEN [regions |-> now, err |-> p.err]
             ELSE CheckLoop(now, p.change)

(* HexFile.check: the regions it leaves and how it ended *)
check(regions) == CheckLoop(SortByAddress(regions), TRUE)

(* HexFile.addRegion on the HexFile value h: [hex, err] *)
addRegion(h, address, data) ==
    LET c == check(Append(h.regions, HexFileRegion(address, data)))
    IN  [hex |-> [h EXCEPT !.regions = c.regions], err |-> c.err]

(* HexFile.merge: addRegion for each region of other, stopping at the first   *)
(* exception; acc counts the regions accepted before it.                      *)
RECURSIVE MergeFrom(_, _, _)
MergeFrom(h, rs, acc) ==
    IF rs = <<>> THEN [hex |-> h, err |-> Ok, accepted |-> acc]
    ELSE LET a == addRegion(h, Head(rs).address, Head(rs).data)
         IN  IF a.err # Ok THEN [hex |-> a.hex, err |-> a.err, accepted |-> acc]
             ELSE MergeFrom(a.hex, Tail(rs), Append(acc, Head(rs)))

merge(h, o) == MergeFrom(h, o.regions, <<>>)

(* HexFile.__eq__ *)
HexEq(h, o) ==
    /\ Len(h.regions) = Len(o.regions)
    /\ \A i \in 1..Len(h.regions) : h.regions[i] = o.regions[i]

----------------------------------------------------------------------------
(* Text: a line is a sequence of one-character strings *)
HexDigits == <<"0", "1", "2", "3", "4", "5", "6", "7",
               "8", "9", "a", "b", "c", "d", "e", "f">>
UpperDigits == <<"0", "1", "2", "3", "4", "5", "6", "7",
                 "8", "9", "A", "B", "C", "D", "E", "F">>

(* binascii.hexlify: two lower-case digits per byte *)
hexlify(nums) ==
    [i \in 1..(2 * Len(nums)) |->
        IF i % 2 = 1 THEN HexDigits[(nums[(i + 1) \div 2] \div 16) + 1]
        ELSE HexDigits[(nums[i \div 2] % 16) + 1]]

(* The value of one hexadecimal digit, -1 for any other character *)
DigitValue(c) ==
    IF \E i \in 1..16 : HexDigits[i] = c
    THEN (CHOOSE i \in 1..16 : HexDigits[i] = c) - 1
    ELSE IF \E i \in 1..16 : UpperDigits[i] = c
    THEN (CHOOSE i \in 1..16 : UpperDigits[i] = c) - 1
    ELSE -1

(* bytes.fromhex on a text without white space: [nums, err]; ValueError on  *)
(* an odd number of digits or a character that is no digit                  *)
fromhex(cs) ==
    IF Len(cs) % 2 = 1 \/ \E i \in 1..Len(cs) : DigitValue(cs[i]) < 0
    THEN [nums |-> <<>>, err |-> ValueError]
    ELSE [nums |-> [i \in 1..(Len(cs) \div 2) |->
                      DigitValue(cs[2 * i - 1]) * 16 + DigitValue(cs[2 * i])],
          err |-> Ok]

(* struct.pack('>H', v) and struct.unpack('>H', b), struct.unpack('>I', b):  *)
(* [.., err]; struct.error when v is out of range or b has the wrong length  *)
packH(v) ==
    IF v < 0 \/ v > 65535 THEN [bytes |-> <<>>, err |-> StructError]
    ELSE [bytes |-> <<v \div 256, v % 256>>, err |-> Ok]

unpackH(b) ==
    IF Len(b) # 2 THEN [value |-> 0, err |-> StructError]
    ELSE [value |-> b[1] * 256 + b[2], err |-> Ok]

unpackI(b) ==
    IF Len(b) # 4 THEN [value |-> 0, err |-> StructError]
    ELSE [value |-> ((b[1] * 256 + b[2]) * 256 + b[3]) * 256 + b[4], err |-> Ok]

(* A checksum that is the one's complement: (~crc) & 0xFF *)
ChecksumOnesComplement(nums) == 255 - (SumSeq(nums) % 256)

(* crc = ((~crc) + 1) & 0xFF *)
Checksum(nums) == (256 - (SumSeq(nums) % 256)) % 256

(* makeHexLine(address, typ, data): [line, err] *)
makeHexLine(address, typ, data) ==
    LET bytecount == Len(data)
        a == packH(address)
    IN  IF bytecount > 255 \/ typ \notin Byte THEN [line |-> <<>>, err |-> ValueError]
        ELSE IF a.err # Ok THEN [line |-> <<>>, err |-> a.err]
        ELSE LET nums == <<bytecount>> \o a.bytes \o <<typ>> \o data
             IN  [line |-> <<":">> \o hexlify(Append(nums, Checksum(nums))),
                  err |-> Ok]

(* parseHexLine(line): [address, typ, data, err] *)
NoRecord(err) == [address |-> 0, typ |-> 0, data |-> <<>>, err |-> err]

parseHexLine(ln) ==
    LET h == fromhex(Tail(ln))
        nums == h.nums
    IN  IF h.err # Ok THEN NoRecord(h.err)
        ELSE IF nums = <<>> THEN NoRecord(IndexError)
        ELSE IF Len(nums) # nums[1] + 5 THEN NoRecord(BadCount)
        ELSE IF SumSeq(nums) % 256 # 0 THEN NoRecord(BadCrc)
        ELSE [address |-> unpackH(SubSeq(nums, 2, 3)).value,
              typ |-> nums[4],
              data |-> SubSeq(nums, 5, Len(nums) - 1),
              err |-> Ok]

(* chunks(data, csize=16) *)
RECURSIVE chunks(_)
chunks(data) ==
    IF data = <<>> THEN <<>>
    ELSE LET s == Min(Len(data), ChunkSize)
         IN  <<SubSeq(data, 1, s)>> \o chunks(SubSeq(data, s + 1, Len(data)))

(* str.strip() *)
IsSpace(c) == c \in {" ", "\t", "\n", "\r"}

RECURSIVE lstrip(_)
lstrip(cs) == IF cs # <<>> /\ IsSpace(Head(cs)) THEN lstrip(Tail(cs)) ELSE cs

RECURSIVE rstrip(_)
rstrip(cs) ==
    IF cs # <<>> /\ IsSpace(cs[Len(cs)]) THEN rstrip(SubSeq(cs, 1, Len(cs) - 1)) ELSE cs

strip(cs) == rstrip(lstrip(cs))

----------------------------------------------------------------------------
(* HexFile.save: the lines printed and how it ended: [lines, err].  print    *)
(* ends each line with a newline; a line that was printed before an          *)
(* exception stays in the stream.                                            *)
emit(out, address, typ, data) ==
    LET m == makeHexLine(address, typ, data)
    IN  IF out.err # Ok THEN out
        ELSE IF m.err # Ok THEN [lines |-> out.lines, err |-> m.err]
        ELSE [lines |-> Append(out.lines, m.line \o <<"\n">>), err |-> Ok]

(* emit(0, EXTLINADR, struct.pack('>H', ext >> 16)) *)
emitExt(out, ext) ==
    LET p == packH(ext \div Bank)
    IN  IF out.err # Ok THEN out
        ELSE IF p.err # Ok THEN [lines |-> out.lines, err |-> p.err]
        ELSE emit(out, 0, EXTLINADR, p.bytes)

(* for chunk in chunks(r.data): ... *)
RECURSIVE SaveChunks(_, _, _, _)
SaveChunks(out, cs, ext, address) ==
    IF out.err # Ok \/ cs = <<>> THEN out
    ELSE LET over == address >= Bank
             ext2 == IF over THEN ext + Bank ELSE ext
             adr2 == IF over THEN address - Bank ELSE address
             out2 == IF over THEN emitExt(out, ext2) ELSE out
         IN  SaveChunks(emit(out2, adr2, DATA, Head(cs)), Tail(cs), ext2,
                        adr2 + Len(Head(cs)))

(* for r in self.regions: ... *)
RECURSIVE SaveRegions(_, _)
SaveRegions(out, rs) ==
    IF out.err # Ok \/ rs = <<>> THEN out
    ELSE LET r == Head(rs)
             ext == (r.address \div Bank) * Bank      \* r.address & 0xFFFF0000
         IN  SaveRegions(SaveChunks(emitExt(out, ext), chunks(r.data), ext,
                                    r.address - ext),
                         Tail(rs))

save(h) == emit(SaveRegions([lines |-> <<>>, err |-> Ok], h.regions), 0, EOF, <<>>)

(* HexFile.load over the lines of a stream: [hex, err].  hexfields strips the *)
(* line, skips it when empty or not starting with ':', and parses it; the    *)
(* loop body then handles the record.  What was loaded before an exception   *)
(* stays in the HexFile.                                                     *)
(* A loop body that does not look at endOfFile *)
LoadRecordNoEofCheck(st, rec) ==
    IF rec.typ = DATA
    THEN LET a == addRegion(st.hex, rec.address + st.ext, rec.data)
         IN  [st EXCEPT !.hex = a.hex, !.err = a.err]
    ELSE IF rec.typ = EXTLINADR
    THEN LET u == unpackH(SubSeq(rec.data, 1, Min(2, Len(rec.data))))
         IN  IF u.err # Ok THEN [st EXCEPT !.err = u.err]
             ELSE [st EXCEPT !.ext = u.value * Bank]
    ELSE IF rec.typ = EOF
    THEN IF Len(rec.data) # 0 THEN [st EXCEPT !.err = EofNotEmpty]
         ELSE [st EXCEPT !.endOfFile = TRUE]
    ELSE IF rec.typ = STARTLINADR
    THEN LET u == unpackI(SubSeq(rec.data, 1, Min(4, Len(rec.data))))
         IN  IF u.err # Ok THEN [st EXCEPT !.err = u.err]
             ELSE [st EXCEPT !.hex.startAddress = u.value]
    ELSE [st EXCEPT !.err = NotImplemented]

(* The body of the for loop of HexFile.load, for one record *)
LoadRecord(st, rec) ==
    IF st.endOfFile THEN [st EXCEPT !.err = AfterEof]
    ELSE IF rec.typ = DATA
    THEN LET a == addRegion(st.hex, rec.address + st.ext, rec.data)
         IN  [st EXCEPT !.hex = a.hex, !.err = a.err]
    ELSE IF rec.typ = EXTLINADR
    THEN LET u == unpackH(SubSeq(rec.data, 1, Min(2, Len(rec.data))))
         IN  IF u.err # Ok THEN [st EXCEPT !.err = u.err]
             ELSE [st EXCEPT !.ext = u.value * Bank]
    ELSE IF rec.typ = EOF
    THEN IF Len(rec.data) # 0 THEN [st EXCEPT !.err = EofNotEmpty]
         ELSE [st EXCEPT !.endOfFile = TRUE]
    ELSE IF rec.typ = STARTLINADR
    THEN LET u == unpackI(SubSeq(rec.data, 1, Min(4, Len(rec.data))))
         IN  IF u.err # Ok THEN [st EXCEPT !.err = u.err]
             ELSE [st EXCEPT !.hex.startAddress = u.value]
    ELSE [st EXCEPT !.err = NotImplemented]

RECURSIVE LoadLines(_, _)
LoadLines(st, lines) ==
    IF st.err # Ok \/ lines = <<>> THEN st
    ELSE LET ln == strip(Head(lines))
         IN  IF ln = <<>> \/ ln[1] # ":" THEN LoadLines(st, Tail(lines))
             ELSE LET rec == parseHexLine(ln)
                  IN  IF rec.err # Ok THEN [st EXCEPT !.err = rec.err]
                      ELSE LoadLines(LoadRecord(st, rec), Tail(lines))

load(h, lines) ==
    LoadLines([hex |-> h, endOfFile |-> FALSE, ext |-> 0, err |-> Ok], lines)

----------------------------------------------------------------------------
(* Inputs.  Addresses stay below 2^31.                                       *)
MaxLines == 4

Ramp(from, n) == [i \in 1..n |-> (from + i - 1) % 256]

(* The regions addRegion is called with: three contiguous single bytes, an   *)
(* overlapping and an empty one, and regions at the 64 KiB boundary, longer  *)
(* than one chunk when merged or alone.                                      *)
AddChoices ==
    { HexFileRegion(0, <<17>>), HexFileRegion(1, <<34>>), HexFileRegion(2, <<51>>),
      HexFileRegion(0, <<68, 85>>), HexFileRegion(1, <<>>),
      HexFileRegion(65520, Ramp(0, 16)), HexFileRegion(65536, <<254, 255>>),
      HexFileRegion(65528, Ramp(128, 17)) }

(* The lines of an input stream: the four records of a file holding          *)
(* 01 02 03 04 at 0x08000000 with start address 0x08000000, an end-of-file   *)
(* record with data, a record of type 02, a blank line and a bad checksum.   *)
TextLine(address, typ, data) == makeHexLine(address, typ, data).line \o <<"\n">>

BadCrcLine == <<":", "0", "0", "0", "0", "0", "0", "0", "1", "0", "0", "\n">>

LineAlphabet ==
    { TextLine(0, EXTLINADR, <<8, 0>>), TextLine(0, DATA, <<1, 2, 3, 4>>),
      TextLine(0, STARTLINADR, <<8, 0, 0, 0>>), TextLine(0, EOF, <<>>),
      TextLine(0, EOF, <<1>>), TextLine(0, 2, <<16, 0>>), <<"\n">>, BadCrcLine }

InputFiles == UNION {[1..n -> LineAlphabet] : n \in 0..MaxLines}

NotSaved == [ok |-> FALSE]

HexInit ==
    /\ hex = NewHexFile
    /\ other = NewHexFile
    /\ f = <<>>
    /\ last = [op |-> "init", err |-> Ok]
    /\ added = <<>>
    /\ raised = FALSE
    /\ saved = NotSaved
    /\ nadd = 0

(* hex = HexFile() *)
New ==
    /\ last.op # "init"
    /\ hex' = NewHexFile
    /\ added' = <<>>
    /\ raised' = FALSE
    /\ last' = [op |-> "new", err |-> Ok]
    /\ UNCHANGED <<other, f, saved, nadd, line, cpu, asm>>

(* hex.addRegion(address, data) *)
AddRegion ==
    /\ nadd < MaxAdds
    /\ \E r \in AddChoices :
          LET a == addRegion(hex, r.address, r.data)
          IN  /\ hex' = a.hex
              /\ added' = IF a.err = Ok THEN Append(added, r) ELSE added
              /\ raised' = (raised \/ a.err # Ok)
              /\ last' = [op |-> "addRegion", address |-> r.address,
                          data |-> r.data, err |-> a.err]
    /\ nadd' = nadd + 1
    /\ UNCHANGED <<other, f, saved, line, cpu, asm>>

(* hex.merge(other) *)
Merge ==
    /\ nadd < MaxAdds
    /\ LET m == merge(hex, other)
       IN  /\ hex' = m.hex
           /\ added' = added \o m.accepted
           /\ raised' = (raised \/ m.err # Ok)
           /\ last' = [op |-> "merge", err |-> m.err]
    /\ nadd' = nadd + 1
    /\ UNCHANGED <<other, f, saved, line, cpu, asm>>

(* hex.save(f) on a new stream f *)
Save ==
    /\ LET s == save(hex)
       IN  /\ f' = s.lines
           /\ saved' = IF s.err = Ok
                       THEN [ok |-> TRUE, hex |-> hex, added |-> added,
                             raised |-> raised]
                       ELSE NotSaved
           /\ last' = [op |-> "save", err |-> s.err]
    /\ UNCHANGED <<hex, other, added, raised, nadd, line, cpu, asm>>

(* other = HexFile(); other.load(f), reading back the stream just written *)
Reload ==
    /\ last.op = "save"
    /\ LET l == load(NewHexFile, f)
       IN  /\ other' = l.hex
           /\ last' = [op |-> "reload", err |-> l.err]
    /\ UNCHANGED <<hex, f, added, raised, saved, nadd, line, cpu, asm>>

(* hex.load(file) for an input stream, on a HexFile just constructed *)
Load ==
    /\ last.op \in {"init", "new"}
    /\ \E file \in InputFiles :
          LET l == load(hex, file)
          IN  /\ hex' = l.hex
              /\ raised' = (raised \/ l.err # Ok)
              /\ last' = [op |-> "load", file |-> file, err |-> l.err]
    /\ UNCHANGED <<other, f, added, saved, nadd, line, cpu, asm>>

LineIdle == line = [phase |-> "idle"]
CpuIdle == cpu = [pc |-> "off"]
AsmIdle == asm = [op |-> "off"]

Init == HexInit /\ LineIdle /\ CpuIdle /\ AsmIdle

Next == New \/ AddRegion \/ Merge \/ Save \/ Reload

Spec == Init /\ [][Next]_vars

NextLoad == Load \/ Save \/ Reload

SpecLoad == Init /\ [][NextLoad]_vars

----------------------------------------------------------------------------
(* Properties of the region list *)

(* The bytes a list of regions holds, each with its address *)
MemOf(rs) ==
    UNION {{<<rs[i].address + k - 1, rs[i].data[k]>> : k \in 1..Len(rs[i].data)} :
           i \in 1..Len(rs)}

(* Two regions cover a common byte address *)
CommonByte(r1, r2) ==
    /\ Len(r1.data) > 0
    /\ Len(r2.data) > 0
    /\ r1.address < EndAddress(r2)
    /\ r2.address < EndAddress(r1)

SortedDisjoint(rs) ==
    \A i, j \in 1..Len(rs) :
        i < j => rs[i].address <= rs[j].address /\ ~CommonByte(rs[i], rs[j])

PairwiseDisjoint(rs) ==
    \A i, j \in 1..Len(rs) : i < j => rs[i] # rs[j] /\ ~CommonByte(rs[i], rs[j])

NonEmptyRegions(h) == \A i \in 1..Len(h.regions) : h.regions[i].data # <<>>

(* C3: an addRegion call with non-empty data raises the overlapping-regions  *)
(* error exactly when its byte range intersects a region the HexFile holds.  *)
C3_OverlapExactly ==
    [][(last'.op = "addRegion" /\ nadd' = nadd + 1 /\ last'.data # <<>>)
         => ((last'.err = Overlap)
               <=> \E i \in 1..Len(hex.regions) :
                      CommonByte(hex.regions[i],
                                 HexFileRegion(last'.address, last'.data)))]_vars

(* C4: adding pairwise-disjoint regions in the order of the calls gives the  *)
(* region list that adding them in ascending address order gives.            *)
C4_OrderIndependent ==
    (~raised /\ PairwiseDisjoint(added))
        => hex.regions = MergeFrom(NewHexFile, SortByAddress(added), <<>>).hex.regions

(* C9: while no call has raised, the regions hold exactly the bytes that     *)
(* were added, each at the address it was added at.                          *)
C9_NoByteLost == ~raised => MemOf(hex.regions) = MemOf(added)

(* C10: the region list is sorted by address and no two regions cover a      *)
(* common byte, also after an operation that raised.                         *)
C10_RegionListInvariant == SortedDisjoint(hex.regions) /\ SortedDisjoint(other.regions)

(* C1 as stated: a HexFile built without an error, saved and loaded into a   *)
(* new HexFile, gives an equal HexFile, whatever the lengths of its regions. *)
C1_RoundTripAnyLength ==
    /\ (last.op = "save" /\ ~raised) => last.err = Ok
    /\ (last.op = "reload" /\ saved.ok /\ ~saved.raised)
          => last.err = Ok /\ HexEq(other, saved.hex)

(* C1 restricted to HexFiles without an empty region: a HexFile built        *)
(* without an error whose regions all hold at least one byte, saved and      *)
(* loaded into a new HexFile, gives an equal HexFile: the same (address,     *)
(* data) regions in the same order.  This holds.                             *)
C1_RoundTrip ==
    /\ (last.op = "save" /\ ~raised /\ NonEmptyRegions(hex)) => last.err = Ok
    /\ (last.op = "reload" /\ saved.ok /\ ~saved.raised /\ NonEmptyRegions(saved.hex))
          => last.err = Ok /\ HexEq(other, saved.hex)

(* A region longer than one chunk that crosses the 64 KiB boundary, and a    *)
(* second region, have been saved and loaded back.                           *)
C1_Witness ==
    /\ last.op = "reload"
    /\ saved.ok
    /\ ~saved.raised
    /\ NonEmptyRegions(saved.hex)
    /\ Len(other.regions) = 2
    /\ \E i \in 1..2 :
          /\ other.regions[i].address < Bank
          /\ EndAddress(other.regions[i]) > Bank
          /\ Len(other.regions[i].data) > ChunkSize

----------------------------------------------------------------------------
(* Properties of load and save *)

(* hexfields yields a record for this line *)
IsRecordLine(ln) == strip(ln) # <<>> /\ strip(ln)[1] = ":"

(* C5: once load has read an end-of-file record, any further record makes it *)
(* fail with HexFileException; an end-of-file record with data fails too.    *)
C5_NothingAfterEof ==
    last.op = "load" =>
        \A k \in 1..Len(last.file) :
            LET rec == parseHexLine(strip(last.file[k]))
                before == load(NewHexFile, SubSeq(last.file, 1, k - 1))
            IN  (/\ IsRecordLine(last.file[k])
                 /\ rec.err = Ok
                 /\ rec.typ = EOF
                 /\ before.err = Ok)
                => /\ rec.data # <<>> => last.err \in HexFileException
                   /\ (\E j \in (k + 1)..Len(last.file) : IsRecordLine(last.file[j]))
                         => last.err \in HexFileException
                   /\ (\E j \in (k + 1)..Len(last.file) :
                          /\ IsRecordLine(last.file[j])
                          /\ parseHexLine(strip(last.file[j])).err = Ok
                          /\ \A i \in (k + 1)..(j - 1) : ~IsRecordLine(last.file[i]))
                         => last.err \in {AfterEof, EofNotEmpty}

(* Records of the types 00, 04 and 05 were loaded, then an end-of-file       *)
(* record, and a start address record after it made load fail.               *)
C5_Witness ==
    /\ last.op = "load"
    /\ last.err = AfterEof
    /\ Len(last.file) = 4
    /\ Len(hex.regions) = 1
    /\ parseHexLine(strip(last.file[3])).typ = EOF
    /\ parseHexLine(strip(last.file[3])).data = <<>>
    /\ parseHexLine(strip(last.file[4])).typ = STARTLINADR

(* C8: loading what save wrote gives the start address of the saved HexFile  *)
C8_StartAddressWritten ==
    (last.op = "reload" /\ saved.ok) => other.startAddress = saved.hex.startAddress

----------------------------------------------------------------------------
(* makeHexLine and parseHexLine on one record *)
MaxData == 3

DataBytes == {0, 1, 127, 128, 255}
LineAddresses == {0, 255, 256, 4660, 65535}
LineTypes == {DATA, EOF, 2, EXTLINADR, STARTLINADR, 255}
LineData ==
    UNION {[1..n -> DataBytes] : n \in 0..MaxData} \cup {Ramp(1, 16), Ramp(0, 255)}

InitLine ==
    /\ HexInit
    /\ CpuIdle
    /\ AsmIdle
    /\ line \in {[phase |-> "input", address |-> a, typ |-> t, data |-> d] :
                    a \in LineAddresses, t \in LineTypes, d \in LineData}

(* line = makeHexLine(address, typ, data) *)
MakeLine ==
    /\ line.phase = "input"
    /\ LET m == makeHexLine(line.address, line.typ, line.data)
       IN  line' = [phase |-> "made", address |-> line.address, typ |-> line.typ,
                    data |-> line.data, text |-> m.line, err |-> m.err]
    /\ UNCHANGED <<hexvars, cpu, asm>>

(* parseHexLine(line) *)
ParseLine ==
    /\ line.phase = "made"
    /\ line.err = Ok
    /\ LET r == parseHexLine(line.text)
       IN  line' = [phase |-> "parsed", address |-> line.address, typ |-> line.typ,
                    data |-> line.data, text |-> line.text, err |-> line.err,
                    rec |-> r]
    /\ UNCHANGED <<hexvars, cpu, asm>>

NextLine == MakeLine \/ ParseLine

SpecLine == InitLine /\ [][NextLine]_vars

(* C2: the bytes of a record makeHexLine produced, checksum included, sum to *)
(* 0 modulo 256, and parseHexLine accepts the line and returns the address,  *)
(* the type and the data it was made from.                                   *)
C2_ChecksumZero ==
    /\ line.phase \in {"made", "parsed"}
          => /\ line.err = Ok
             /\ line.text[1] = ":"
             /\ fromhex(Tail(line.text)).err = Ok
             /\ SumSeq(fromhex(Tail(line.text)).nums) % 256 = 0
    /\ line.phase = "parsed"
          => line.rec = [address |-> line.address, typ |-> line.typ,
                         data |-> line.data, err |-> Ok]

(* A record of 255 data bytes has been made and parsed *)
C2_Witness ==
    /\ line.phase = "parsed"
    /\ Len(line.data) = 255
    /\ line.address = 65535
    /\ line.rec.err = Ok

----------------------------------------------------------------------------
(* The RISC-V machine: registers are words of XLEN bits kept as 0..2^XLEN-1, *)
(* memory is addressed by byte and holds words at word-aligned addresses.    *)
XLEN == 7
MaxLive == 3

RECURSIVE Pow2(_)
Pow2(n) == IF n = 0 THEN 1 ELSE 2 * Pow2(n - 1)

Word == 0..(Pow2(XLEN) - 1)
Wrap(v) == v % Pow2(XLEN)
Signed(v) == IF v >= Pow2(XLEN - 1) THEN v - Pow2(XLEN) ELSE v

LR == "ra"
SP == "sp"
Pool == {"x9", "x18", "x19", "x20"}
Regs == {"x0", LR, SP, "x10", "x11", "x12", "x14", "x28"} \cup Pool

(* Instructions *)
Sw(rs, imm, base) == [op |-> "sw", rs |-> rs, imm |-> imm, base |-> base]
Lw(rd, imm, base) == [op |-> "lw", rd |-> rd, imm |-> imm, base |-> base]
Add(rd, rs, imm) == [op |-> "add", rd |-> rd, rs |-> rs, imm |-> imm]
Bl(rd, target) == [op |-> "bl", rd |-> rd, target |-> target]

RECURSIVE Reverse(_)
Reverse(q) == IF q = <<>> THEN <<>> ELSE Append(Reverse(Tail(q)), Head(q))

(* for register in live_regs: yield Sw(register, i, SP); i -= 4 *)
RECURSIVE SaveLive(_, _)
SaveLive(regs, i) ==
    IF regs = <<>> THEN <<>>
    ELSE <<Sw(Head(regs), i, SP)>> \o SaveLive(Tail(regs), i - 4)

(* for register in ...: i += 4; yield Lw(register, i, SP) *)
RECURSIVE RestoreLive(_, _)
RestoreLive(regs, i) ==
    IF regs = <<>> THEN <<>>
    ELSE <<Lw(Head(regs), i + 4, SP)>> \o RestoreLive(Tail(regs), i + 4)

(* A make_call that reloads the registers in the order it stored them *)
MakeCallForward(live) ==
    LET n == Len(live)
    IN  SaveLive(live, 0)
        \o <<Sw(LR, 0 - 4 * n, SP), Add(SP, SP, 0 - 4 * n - 4), Bl(LR, "callee"),
             Lw(LR, 4, SP)>>
        \o RestoreLive(live, 4)
        \o <<Add(SP, SP, 4 + 4 * n)>>

(* RiscvArch.make_call: the instructions it yields for the registers live    *)
(* over the call.  i is 0 - 4 * n after the stores of the n live registers,  *)
(* 0 - 4 * n - 4 when SP is decremented, and 4 + 4 * n after the loads.      *)
make_call(live) ==
    LET n == Len(live)
    IN  SaveLive(live, 0)
        \o <<Sw(LR, 0 - 4 * n, SP), Add(SP, SP, 0 - 4 * n - 4), Bl(LR, "callee"),
             Lw(LR, 4, SP)>>
        \o RestoreLive(Reverse(live), 4)
        \o <<Add(SP, SP, 4 + 4 * n)>>

(* The __sdiv routine of RiscvArch.get_runtime, one instruction per element; *)
(* branch targets are positions in this sequence.                            *)
SdivInc == 3
SdivLsl == 5
SdivDec == 7
SdivSkip == 10

sdiv ==
    << [op |-> "mov", rd |-> "x14", imm |-> 0],
       [op |-> "movr", rd |-> "x28", rs |-> "x12"],
       [op |-> "blt", rs1 |-> "x28", rs2 |-> "x11", target |-> SdivLsl],
       [op |-> "j", target |-> SdivDec],
       [op |-> "slli", rd |-> "x28", rs |-> "x28", imm |-> 1],
       [op |-> "j", target |-> SdivInc],
       [op |-> "blt", rs1 |-> "x11", rs2 |-> "x28", target |-> SdivSkip],
       [op |-> "sub", rd |-> "x11", rs1 |-> "x11", rs2 |-> "x28"],
       Add("x14", "x14", 1),
       [op |-> "srai", rd |-> "x28", rs |-> "x28", imm |-> 1],
       [op |-> "slli", rd |-> "x14", rs |-> "x14", imm |-> 1],
       [op |-> "bgt", rs1 |-> "x28", rs2 |-> "x12", target |-> SdivDec],
       [op |-> "movr", rd |-> "x10", rs |-> "x14"],
       [op |-> "jalr", rd |-> "x0", rs |-> LR, imm |-> 0] >>

Program == IF cpu.unit = "call" THEN make_call(cpu.live) ELSE sdiv

Running == cpu.pc \in 1..Len(Program)
Current == Program[cpu.pc]

(* A register write; x0 is hard-wired to zero *)
SetReg(x, rd, v) == IF rd = "x0" THEN x ELSE [x EXCEPT ![rd] = Wrap(v)]


WordAddresses == {a \in Word : a % 4 = 0}
NoAddress == 0 - 1

(* Two assignments of distinct values to the registers *)
RegValuesA ==
    [r \in Regs |-> CASE r = LR -> 1 [] r = "x9" -> 9 [] r = "x18" -> 18
                      [] r = "x19" -> 19 [] r = "x20" -> 20 [] OTHER -> 0]
RegValuesB ==
    [r \in Regs |-> CASE r = LR -> 33 [] r = "x9" -> 20 [] r = "x18" -> 19
                      [] r = "x19" -> 18 [] r = "x20" -> 9 [] r = "x10" -> 7
                      [] OTHER -> 0]

(* What a callee leaves in the registers and the memory it may write *)
Junk == {0, Pow2(XLEN) - 1}

(* The lists of distinct registers live over a call *)
LiveLists ==
    {q \in UNION {[1..n -> Pool] : n \in 0..MaxLive} :
        \A i, j \in 1..Len(q) : i # j => q[i] # q[j]}

Machine(unit, live, x, mem) ==
    [unit |-> unit, pc |-> 1, live |-> live, x |-> x, mem |-> mem, x0 |-> x,
     stored |-> [r \in Regs |-> NoAddress], loaded |-> [r \in Regs |-> NoAddress],
     spbl |-> NoAddress]

(* A call site: SP is word-aligned and the stack has room for the frame *)
InitCall ==
    /\ HexInit
    /\ LineIdle
    /\ AsmIdle
    /\ \E live \in LiveLists, vals \in {RegValuesA, RegValuesB} :
       \E sp \in {a \in WordAddresses : a >= 4 * (MaxLive + 1)} :
          cpu = Machine("call", live, [vals EXCEPT ![SP] = sp],
                        [a \in WordAddresses |-> 0])

(* __sdiv entered with a dividend x >= 0 in x11 and a divisor y > 0 in x12 *)
InitDiv ==
    /\ HexInit
    /\ LineIdle
    /\ AsmIdle
    /\ \E x \in 0..(Pow2(XLEN - 1) - 1), y \in 1..(Pow2(XLEN - 1) - 1) :
          cpu = Machine("sdiv", <<>>,
                        [RegValuesA EXCEPT !["x11"] = x, !["x12"] = y], <<>>)

Exec(op) == Running /\ Current.op = op

ExecSw ==
    /\ Exec("sw")
    /\ LET a == Wrap(cpu.x[Current.base] + Current.imm)
       IN  cpu' = [cpu EXCEPT !.mem[a] = cpu.x[Current.rs],
                              !.stored[Current.rs] = a,
                              !.pc = cpu.pc + 1]
    /\ UNCHANGED <<hexvars, line, asm>>

ExecLw ==
    /\ Exec("lw")
    /\ LET a == Wrap(cpu.x[Current.base] + Current.imm)
       IN  cpu' = [cpu EXCEPT !.x = SetReg(cpu.x, Current.rd, cpu.mem[a]),
                              !.loaded[Current.rd] = a,
                              !.pc = cpu.pc + 1]
    /\ UNCHANGED <<hexvars, line, asm>>

ExecAdd ==
    /\ Exec("add")
    /\ cpu' = [cpu EXCEPT !.x = SetReg(cpu.x, Current.rd,
                                       cpu.x[Current.rs] + Current.imm),
                          !.pc = cpu.pc + 1]
    /\ UNCHANGED <<hexvars, line, asm>>

(* bl: the callee runs and returns.  It leaves SP as it found it and writes  *)
(* no memory above the SP it was entered with; every other register and the  *)
(* memory at and below that SP hold what the callee left there.              *)
ExecBl ==
    /\ Exec("bl")
    /\ \E j \in Junk :
          cpu' = [cpu EXCEPT
                    !.x = [r \in Regs |-> IF r = SP THEN cpu.x[SP]
                                          ELSE IF r = "x0" THEN 0 ELSE j],
                    !.mem = [a \in WordAddresses |->
                                IF a <= cpu.x[SP] THEN j ELSE cpu.mem[a]],
                    !.spbl = cpu.x[SP],
                    !.pc = cpu.pc + 1]
    /\ UNCHANGED <<hexvars, line, asm>>

NextCall == ExecSw \/ ExecLw \/ ExecAdd \/ ExecBl

SpecCall == InitCall /\ [][NextCall]_vars

ExecMov ==
    /\ Exec("mov")
    /\ cpu' = [cpu EXCEPT !.x = SetReg(cpu.x, Current.rd, Current.imm),
                          !.pc = cpu.pc + 1]
    /\ UNCHANGED <<hexvars, line, asm>>

ExecMovr ==
    /\ Exec("movr")
    /\ cpu' = [cpu EXCEPT !.x = SetReg(cpu.x, Current.rd, cpu.x[Current.rs]),
                          !.pc = cpu.pc + 1]
    /\ UNCHANGED <<hexvars, line, asm>>

(* blt: branch when rs1 < rs2, compared as signed words *)
ExecBlt ==
    /\ Exec("blt")
    /\ cpu' = [cpu EXCEPT !.pc = IF Signed(cpu.x[Current.rs1]) < Signed(cpu.x[Current.rs2])
                                 THEN Current.target ELSE cpu.pc + 1]
    /\ UNCHANGED <<hexvars, line, asm>>

(* bgt: branch when rs1 > rs2, compared as signed words *)
ExecBgt ==
    /\ Exec("bgt")
    /\ cpu' = [cpu EXCEPT !.pc = IF Signed(cpu.x[Current.rs1]) > Signed(cpu.x[Current.rs2])
                                 THEN Current.target ELSE cpu.pc + 1]
    /\ UNCHANGED <<hexvars, line, asm>>

ExecJ ==
    /\ Exec("j")
    /\ cpu' = [cpu EXCEPT !.pc = Current.target]
    /\ UNCHANGED <<hexvars, line, asm>>

(* slli: shift left, the bits shifted out of the word are lost *)
ExecSlli ==
    /\ Exec("slli")
    /\ cpu' = [cpu EXCEPT !.x = SetReg(cpu.x, Current.rd,
                                       cpu.x[Current.rs] * Pow2(Current.imm)),
                          !.pc = cpu.pc + 1]
    /\ UNCHANGED <<hexvars, line, asm>>

(* srai: arithmetic shift right *)
ExecSrai ==
    /\ Exec("srai")
    /\ cpu' = [cpu EXCEPT !.x = SetReg(cpu.x, Current.rd,
                                       Signed(cpu.x[Current.rs]) \div Pow2(Current.imm)),
                          !.pc = cpu.pc + 1]
    /\ UNCHANGED <<hexvars, line, asm>>

ExecSub ==
    /\ Exec("sub")
    /\ cpu' = [cpu EXCEPT !.x = SetReg(cpu.x, Current.rd,
                                       cpu.x[Current.rs1] - cpu.x[Current.rs2]),
                          !.pc = cpu.pc + 1]
    /\ UNCHANGED <<hexvars, line, asm>>

(* jalr x0, ra, 0: the routine returns to its caller *)
ExecJalr ==
    /\ Exec("jalr")
    /\ cpu' = [cpu EXCEPT !.pc = 0]
    /\ UNCHANGED <<hexvars, line, asm>>

Returned == cpu.unit = "sdiv" /\ cpu.pc = 0

NextDiv ==
    \/ ExecMov \/ ExecMovr \/ ExecBlt \/ ExecBgt \/ ExecJ
    \/ ExecSlli \/ ExecSrai \/ ExecSub \/ ExecAdd \/ ExecJalr

SpecDiv == InitDiv /\ [][NextDiv]_vars

(* The machine does not stop between two instructions of the routine *)
SpecDivFair == SpecDiv /\ WF_vars(NextDiv)

----------------------------------------------------------------------------
(* RiscvAssembler: the literal pool *)

MaxLits == 3       \* add_literal calls that store a literal
MaxFlushes == 3    \* flush calls

AssertionError == "AssertionError"
AsmException == "Exception"

(* Arguments handed to add_literal: Python values tagged with their type *)
LitValues ==
    {[type |-> "str", val |-> "SOMESYM"], [type |-> "str", val |-> "other"],
     [type |-> "int", val |-> "7"]}

(* The items the pool holds: a label and a data word directive *)
Label(name) == [kind |-> "label", name |-> name]
dcd(v) == [kind |-> "dcd", v |-> v]

DecDigits == <<"0", "1", "2", "3", "4", "5", "6", "7", "8", "9">>

(* "{}".format(n) for n >= 0 *)
RECURSIVE FormatInt(_)
FormatInt(n) ==
    IF n < 10 THEN <<DecDigits[n + 1]>>
    ELSE FormatInt(n \div 10) \o <<DecDigits[(n % 10) + 1]>>

(* "_lit_{}".format(n) *)
LitName(n) == <<"_", "l", "i", "t", "_">> \o FormatInt(n)

(* BaseAssembler.emit: the item goes to the output stream *)
stream_emit(out, i) == Append(out, i)

(* RiscvAssembler.__init__ *)
NewAssembler == [lit_pool |-> <<>>, lit_counter |-> 0, in_macro |-> FALSE,
                 out |-> <<>>]

(* A loop that takes the items from the end of the pool *)
RECURSIVE FlushLoopFromEnd(_, _)
FlushLoopFromEnd(pool, out) ==
    IF pool = <<>> THEN [lit_pool |-> pool, out |-> out]
    ELSE FlushLoopFromEnd(SubSeq(pool, 1, Len(pool) - 1),
                          stream_emit(out, pool[Len(pool)]))

(* while self.lit_pool: i = self.lit_pool.pop(0); self.emit(i) *)
RECURSIVE FlushLoop(_, _)
FlushLoop(pool, out) ==
    IF pool = <<>> THEN [lit_pool |-> pool, out |-> out]
    ELSE FlushLoop(Tail(pool), stream_emit(out, Head(pool)))

(* RiscvAssembler.flush *)
flush(a) ==
    IF a.in_macro THEN [a |-> a, err |-> AsmException]
    ELSE LET r == FlushLoop(a.lit_pool, a.out)
         IN  [a |-> [a EXCEPT !.lit_pool = r.lit_pool, !.out = r.out],
              err |-> Ok]

(* RiscvAssembler.add_literal *)
add_literal(a, v) ==
    IF v.type # "str" THEN [a |-> a, err |-> AssertionError, ret |-> <<>>]
    ELSE LET n == a.lit_counter + 1
             label_name == LitName(n)
         IN  [a |-> [a EXCEPT !.lit_counter = n,
                              !.lit_pool = Append(Append(a.lit_pool, Label(label_name)),
                                                  dcd(v.val))],
              err |-> Ok, ret |-> label_name]

(* The state of the unit: the assembler, and the history of the calls made   *)
(* on it.  log: the literals stored, each with the number of flush calls     *)
(* made before it; outBy: for each emitted item the number of the flush call *)
(* that emitted it; emitted: the number of items the last call emitted.      *)
AsmState(a, op, err, log, outBy, flushes, macros, emitted) ==
    [a |-> a, op |-> op, err |-> err, log |-> log, outBy |-> outBy,
     flushes |-> flushes, macros |-> macros, emitted |-> emitted]

InitAsm ==
    /\ HexInit
    /\ LineIdle
    /\ CpuIdle
    /\ asm = AsmState(NewAssembler, "init", Ok, <<>>, <<>>, 0, FALSE, 0)

(* label_name = assembler.add_literal(v) *)
AddLiteral ==
    /\ asm.op # "off"
    /\ asm.a.lit_counter < MaxLits
    /\ \E v \in LitValues :
          LET r == add_literal(asm.a, v)
          IN  asm' = AsmState(r.a, "add_literal", r.err,
                              IF r.err = Ok
                              THEN Append(asm.log, [name |-> r.ret, v |-> v.val,
                                                    epoch |-> asm.flushes])
                              ELSE asm.log,
                              asm.outBy, asm.flushes, asm.macros, 0)
    /\ UNCHANGED <<hexvars, line, cpu>>

(* assembler.flush() *)
Flush ==
    /\ asm.op # "off"
    /\ asm.flushes < MaxFlushes
    /\ LET r == flush(asm.a)
           n == Len(r.a.out) - Len(asm.a.out)
       IN  asm' = AsmState(r.a, "flush", r.err, asm.log,
                           asm.outBy \o [i \in 1..n |-> asm.flushes + 1],
                           asm.flushes + 1, asm.macros, n)
    /\ UNCHANGED <<hexvars, line, cpu>>

(* The assembler starts to read a macro definition *)
BeginMacro ==
    /\ asm.op # "off"
    /\ ~asm.a.in_macro
    /\ asm' = [asm EXCEPT !.a.in_macro = TRUE, !.op = "macro", !.err = Ok,
                          !.macros = TRUE, !.emitted = 0]
    /\ UNCHANGED <<hexvars, line, cpu>>

(* The macro definition ends *)
EndMacro ==
    /\ asm.op # "off"
    /\ asm.a.in_macro
    /\ asm' = [asm EXCEPT !.a.in_macro = FALSE, !.op = "endm", !.err = Ok,
                          !.emitted = 0]
    /\ UNCHANGED <<hexvars, line, cpu>>

NextAsm == AddLiteral \/ Flush \/ BeginMacro \/ EndMacro

SpecAsm == InitAsm /\ [][NextAsm]_vars

----------------------------------------------------------------------------
(* C6: make_call decrements SP by 4 * (n + 1) before the bl; after the whole *)
(* sequence SP, ra and the n live registers hold their values from before    *)
(* the call, each reloaded from the address it was stored at.                *)
C6_CallSymmetric ==
    cpu.unit = "call" =>
        /\ (Running /\ Current.op = "bl")
              => cpu.x[SP] = Wrap(cpu.x0[SP] - 4 * (Len(cpu.live) + 1))
        /\ cpu.pc = Len(Program) + 1
              => /\ cpu.x[SP] = cpu.x0[SP]
                 /\ \A r \in {LR} \cup {cpu.live[k] : k \in 1..Len(cpu.live)} :
                       /\ cpu.x[r] = cpu.x0[r]
                       /\ cpu.stored[r] # NoAddress
                       /\ cpu.loaded[r] = cpu.stored[r]
                       /\ cpu.stored[r] > cpu.spbl

(* The sequence for two live registers has run, over a callee that left      *)
(* other values in the registers; SP was 12 lower during the call.           *)
C6_Witness ==
    /\ cpu.unit = "call"
    /\ Len(cpu.live) = 2
    /\ cpu.pc = Len(Program) + 1
    /\ cpu.spbl = cpu.x0[SP] - 12
    /\ cpu.x["x10"] # cpu.x0["x10"]
    /\ cpu.x0[cpu.live[1]] # cpu.x0[cpu.live[2]]

(* C7: __sdiv returns with x10 equal to the integer quotient floor(x / y)    *)
C7_Quotient ==
    Returned => cpu.x["x10"] = cpu.x0["x11"] \div cpu.x0["x12"]

(* The label and the data word of each literal of lits, in order *)
PoolItems(lits) ==
    [i \in 1..(2 * Len(lits)) |->
        IF i % 2 = 1 THEN Label(lits[(i + 1) \div 2].name)
        ELSE dcd(lits[i \div 2].v)]

(* The literals stored before the flush call number k + 1 / after call k *)
StoredBefore(k) == LET Older(l) == l.epoch < k IN SelectSeq(asm.log, Older)
StoredSince(k) == LET Newer(l) == l.epoch >= k IN SelectSeq(asm.log, Newer)

(* C11: with no macro opened, the stream holds, for the literals stored      *)
(* before the last flush and in the order they were stored, the label of     *)
(* each followed by its data word, each emitted by the first flush after it  *)
(* was stored and under a label no other literal has; the pool holds the     *)
(* literals stored since, and is empty after a flush.  A flush while a macro *)
(* is open raises and emits nothing.                                         *)
C11_LiteralPoolDelivery ==
    asm.op # "off" =>
        /\ ~asm.macros =>
              /\ asm.a.out = PoolItems(StoredBefore(asm.flushes))
              /\ asm.a.lit_pool = PoolItems(StoredSince(asm.flushes))
              /\ \A i \in 1..Len(StoredBefore(asm.flushes)) :
                    /\ asm.outBy[2 * i - 1] = asm.log[i].epoch + 1
                    /\ asm.outBy[2 * i] = asm.log[i].epoch + 1
              /\ \A i, j \in 1..Len(asm.log) :
                    i # j => asm.log[i].name # asm.log[j].name
              /\ asm.op = "flush" => asm.err = Ok /\ asm.a.lit_pool = <<>>
        /\ (asm.op = "flush" /\ asm.a.in_macro)
              => asm.err = AsmException /\ asm.emitted = 0

(* Two literals were stored and flushed, then a third one, and a second      *)
(* flush has just emitted it; no macro was opened.                           *)
C11_Witness ==
    /\ asm.op = "flush"
    /\ ~asm.macros
    /\ asm.flushes = 2
    /\ Len(asm.log) = 3
    /\ asm.log[2].epoch = 0
    /\ asm.log[3].epoch = 1
    /\ asm.emitted = 2
    /\ Len(asm.a.out) = 6

(* C12: __sdiv reaches its return instruction after finitely many steps, for *)
(* every dividend x >= 0 and every divisor y > 0 of the word width.          *)
C12_Terminates == <>Returned

(* The divisor can be doubled up to the dividend inside the positive range   *)
(* of a word: y * 2^k >= x for some k with y * 2^k < 2^(XLEN - 1).           *)
DoublesInRange ==
    \E k \in 0..(XLEN - 2) :
        /\ cpu.x0["x12"] * Pow2(k) >= cpu.x0["x11"]
        /\ cpu.x0["x12"] * Pow2(k) < Pow2(XLEN - 1)

(* C12 restricted to those inputs: the routine returns.  This holds.         *)
C12_TerminatesInRange == DoublesInRange => <>Returned

====
